---- MODULE Spec2Model ----
(***************************************************************************)
(* Lingua: handle-based transfer of JSON strings between a WebAssembly     *)
(* module (Rust) and its host (Luau).                                      *)
(*                                                                         *)
(* The model follows rust/src/lib.rs (slot table, panic boundary,          *)
(* send/receive) and src/ffi.rs (foreign string allocations).              *)
(***************************************************************************)
EXTENDS Integers, Sequences, FiniteSets, TLC

(***************************************************************************)
(* Bounds of the model.                                                    *)
(***************************************************************************)
\* luau handles range over 0..MaxHandle
MaxHandle == 1
\* requested payload lengths range over 0..MaxLen
MaxLen == 2
\* number of heap addresses the allocator can hand out
MaxHeap == 2
\* foreign strings are asked for with capacities 0..MaxCap
MaxCap == 1
\* at most MaxSends values are passed to the host in a run
MaxSends == 3
MaxAllocs == 3
MaxThread == 1
MaxCtxSends == 1

Handles == 0..MaxHandle
Lens == 0..MaxLen

(***************************************************************************)
(* Memory addresses.  `0 as *mut u8` is the null pointer; a String that    *)
(* owns no heap memory (capacity 0) reports the dangling, well-aligned     *)
(* pointer of a u8, which is address 1.                                    *)
(***************************************************************************)
Null == 0
Dangling == 1
HeapAddrs == (Dangling + 1)..(Dangling + MaxHeap)

\* bytes the host writes: '1' and '[' of a JSON text
PayloadBytes == {49, 91}

(***************************************************************************)
(* State.                                                                  *)
(***************************************************************************)
VARIABLES
  just_received_json,  \* ApiState.just_received_json : HashMap<u32, JustReceivedJson>
  next_rust_handle,    \* ApiState.next_rust_handle   : Wrapping<u32>
  ptr_map,             \* StringAllocs.ptr_map        : HashMap<*mut u8, String>
  last,                \* the most recent call and what it returned
  hist,                \* per handle: the last call on it that succeeded
  host,                \* per live handle: what the host asked for and wrote
  ledger,              \* what the callers have been handed so far
  contexts,            \* the thread-local state of each thread of SpecCtx
  sending              \* the send_to_luau that is inside its call of the host

vars ==
  <<just_received_json, next_rust_handle, ptr_map, last, hist, host, ledger,
    contexts, sending>>

(***************************************************************************)
(* HashMap operations, on functions with a finite domain.                  *)
(***************************************************************************)
contains_key(map, k) == k \in DOMAIN map

insert(map, k, v) == [x \in DOMAIN map \cup {k} |-> IF x = k THEN v ELSE map[x]]

remove(map, k) == [x \in DOMAIN map \ {k} |-> map[x]]

EmptyMap == [x \in {} |-> 0]

(***************************************************************************)
(* Strings.  A String is its bytes and the address of its heap buffer.     *)
(***************************************************************************)
\* UTF-8 encoding of the fill character U+00A3
PoundUtf8 == <<194, 163>>

RECURSIVE from_iter(_)
\* String::from_iter((0..len).map(|_| POUND)): the bytes of len fill characters
from_iter(len) == IF len = 0 THEN <<>> ELSE PoundUtf8 \o from_iter(len - 1)

\* a String's capacity is at least its length in bytes
StrCapacity(bytes) == Len(bytes)

\* heap addresses owned by a live String of the slot table or of ptr_map
InUse ==
  {just_received_json[h].ptr : h \in DOMAIN just_received_json} \cup DOMAIN ptr_map

\* addresses the allocator may return for a buffer of cap bytes
FreshAddrs(cap) == IF cap = 0 THEN {Dangling} ELSE HeapAddrs \ InUse

(***************************************************************************)
(* serde_json::from_str, on the texts the host can produce here: a JSON    *)
(* value over the bytes '1', '[' and ']' is a number 1..1 or an array of   *)
(* at most one value; any other byte outside a string literal is an error. *)
(***************************************************************************)
RECURSIVE IsJsonValue(_)
IsJsonValue(s) ==
  /\ Len(s) > 0
  /\ \/ \A i \in 1..Len(s) : s[i] = 49
     \/ /\ Len(s) >= 2
        /\ s[1] = 91
        /\ s[Len(s)] = 93
        /\ \/ Len(s) = 2
           \/ IsJsonValue(SubSeq(s, 2, Len(s) - 1))

from_str(s) == IF IsJsonValue(s) THEN "Ok" ELSE "SerdeError"

(***************************************************************************)
(* The panic boundary.  A closure's run is summarised by whether it        *)
(* panicked and by the state it left behind: catch_unwind stops the unwind *)
(* and rolls nothing back.                                                 *)
(***************************************************************************)
ffi_panic_boundary(run) ==
  IF run.panicked THEN "PanicAtFfiBoundary" ELSE "Success"

\* `status as u8` of return_codes::Rust
RustCode(status) == IF status = "Success" THEN 0 ELSE 1

NoCall ==
  [seq |-> 0, op |-> "none", handle |-> 0, status |-> "none",
   code |-> 0, ptr |-> Null, bytes |-> <<>>]

Call(op, h, status, code, ptr, bytes) ==
  [seq |-> 1 - last.seq, op |-> op, handle |-> h, status |-> status,
   code |-> code, ptr |-> ptr, bytes |-> bytes]

\* the host's view of a transfer: the length it asked for, the positions it
\* has written so far and the byte it wrote at each of them
NoHost == [len |-> 0, written |-> {}, data |-> <<>>]

Asked(len) == [len |-> len, written |-> {}, data |-> [i \in 1..len |-> 0]]

\* nothing handed out yet: start is the counter at the start of the run and
\* sent the handles passed to lingua_send_json_to_luau since
\* no send_to_luau is inside its call of lingua_send_json_to_luau
NoSending == [active |-> FALSE, rust_handle |-> 0, str |-> <<>>]

NoLedger ==
  [start |-> 0, sent |-> <<>>, handed |-> {}, released |-> [a \in {} |-> 0],
   allocs |-> 0, frees |-> 0, thread |-> 0, senders |-> {},
   nested |-> FALSE]

Init ==
  /\ just_received_json = EmptyMap
  /\ next_rust_handle = 0
  /\ ptr_map = EmptyMap
  /\ last = NoCall
  /\ hist = [h \in Handles |-> "none"]
  /\ host = [h \in Handles |-> NoHost]
  /\ ledger = NoLedger
  /\ sending = NoSending
  /\ contexts = EmptyMap

\* the module instance runs until a panic or a trap has left an entry point
Running == last.status \notin {"Escaped", "Trapped"}

(***************************************************************************)
(* lingua_send_json_to_rust_alloc                                          *)
(***************************************************************************)
\* variant: the closure without its check that the handle is unused
alloc_closure_unchecked(table, luau_handle, len, str_ptr) ==
  [panicked |-> FALSE,
   table |-> insert(table, luau_handle,
                    [tag |-> "AllocatedOnly", str |-> from_iter(len), ptr |-> str_ptr]),
   return_ptr |-> str_ptr]

\* variant: a double allocation empties the table before it panics
alloc_closure_resetting(table, luau_handle, len, str_ptr) ==
  LET str == from_iter(len) IN
  IF ~(StrCapacity(str) >= len)
  THEN [panicked |-> TRUE, table |-> table, return_ptr |-> Null]
  ELSE IF contains_key(table, luau_handle)
  THEN [panicked |-> TRUE, table |-> EmptyMap, return_ptr |-> Null]
  ELSE [panicked |-> FALSE,
        table |-> insert(table, luau_handle,
                         [tag |-> "AllocatedOnly", str |-> str, ptr |-> str_ptr]),
        return_ptr |-> str_ptr]

\* the closure handed to the panic boundary; str_ptr is the new String's buffer
alloc_closure(table, luau_handle, len, str_ptr) ==
  LET str == from_iter(len) IN
  IF ~(StrCapacity(str) >= len)
  THEN [panicked |-> TRUE, table |-> table, return_ptr |-> Null]
  ELSE IF contains_key(table, luau_handle)
  THEN [panicked |-> TRUE, table |-> table, return_ptr |-> Null]
  ELSE [panicked |-> FALSE,
        table |-> insert(table, luau_handle,
                         [tag |-> "AllocatedOnly", str |-> str, ptr |-> str_ptr]),
        return_ptr |-> str_ptr]

lingua_send_json_to_rust_alloc(luau_handle, len) ==
  \E str_ptr \in FreshAddrs(Len(from_iter(len))) :
    LET run == alloc_closure(just_received_json, luau_handle, len, str_ptr)
        status == ffi_panic_boundary(run)
    IN /\ Running
       /\ just_received_json' = run.table
       /\ last' = Call("alloc", luau_handle, status, RustCode(status), run.return_ptr, <<>>)
       /\ hist' = IF run.return_ptr # Null
                  THEN [hist EXCEPT ![luau_handle] = "allocated"] ELSE hist
       /\ host' = IF run.return_ptr # Null
                  THEN [host EXCEPT ![luau_handle] = Asked(len)]
                  ELSE host
       /\ UNCHANGED <<ledger, contexts, sending, next_rust_handle, ptr_map>>

(***************************************************************************)
(* The host fills the space it was given: one byte of the len bytes it     *)
(* asked for, written through the pointer returned by the alloc call.      *)
(***************************************************************************)
HostWrite(luau_handle, i, b) ==
  /\ contains_key(just_received_json, luau_handle)
  /\ just_received_json[luau_handle].tag = "AllocatedOnly"
  /\ i \in 1..host[luau_handle].len
  /\ just_received_json' =
       [just_received_json EXCEPT ![luau_handle].str[i] = b]
  /\ host' = [host EXCEPT ![luau_handle].written = @ \cup {i},
                          ![luau_handle].data[i] = b]
  /\ UNCHANGED <<ledger, contexts, sending, next_rust_handle, ptr_map, last, hist>>

(***************************************************************************)
(* lingua_send_json_to_rust                                                *)
(***************************************************************************)
\* the closure handed to the panic boundary
send_closure(table, luau_handle) ==
  IF ~contains_key(table, luau_handle)
  THEN [panicked |-> TRUE, table |-> remove(table, luau_handle)]
  ELSE LET data == table[luau_handle]
           removed == remove(table, luau_handle)
       IN IF data.tag = "AllocatedOnly"
          THEN [panicked |-> FALSE,
                table |-> insert(removed, luau_handle, [data EXCEPT !.tag = "Ready"])]
          ELSE [panicked |-> TRUE, table |-> removed]

\* the host's bookkeeping for a handle ends when its slot is gone
HostAfter(table, luau_handle) ==
  IF contains_key(table, luau_handle)
  THEN host ELSE [host EXCEPT ![luau_handle] = NoHost]

lingua_send_json_to_rust(luau_handle) ==
  LET run == send_closure(just_received_json, luau_handle)
      status == ffi_panic_boundary(run)
  IN /\ Running
     /\ just_received_json' = run.table
     /\ last' = Call("commit", luau_handle, status, RustCode(status), Null, <<>>)
     /\ hist' = IF status = "Success"
                THEN [hist EXCEPT ![luau_handle] = "committed"] ELSE hist
     /\ host' = HostAfter(run.table, luau_handle)
     /\ UNCHANGED <<ledger, contexts, sending, next_rust_handle, ptr_map>>

(***************************************************************************)
(* receive_from_luau                                                       *)
(***************************************************************************)
\* variant: the AllocatedOnly arm hands out the string like the Ready arm
receive_closure_premature(table, luau_handle) ==
  LET removed == remove(table, luau_handle) IN
  IF ~contains_key(table, luau_handle)
  THEN [table |-> removed, status |-> "NoDataError", bytes |-> <<>>]
  ELSE [table |-> removed,
        status |-> from_str(table[luau_handle].str),
        bytes |-> table[luau_handle].str]

\* variant: the entry is looked up with get, so a Ready entry stays in the table
receive_closure_get(table, luau_handle) ==
  IF ~contains_key(table, luau_handle)
  THEN [table |-> table, status |-> "NoDataError", bytes |-> <<>>]
  ELSE IF table[luau_handle].tag = "AllocatedOnly"
  THEN [table |-> table, status |-> "AllocatedOnlyError", bytes |-> <<>>]
  ELSE [table |-> table,
        status |-> from_str(table[luau_handle].str),
        bytes |-> table[luau_handle].str]

\* variant: a string that does not parse is put back for another try
receive_closure_retry(table, luau_handle) ==
  IF ~contains_key(table, luau_handle)
  THEN [table |-> table, status |-> "NoDataError", bytes |-> <<>>]
  ELSE IF table[luau_handle].tag = "AllocatedOnly"
  THEN [table |-> remove(table, luau_handle), status |-> "AllocatedOnlyError",
        bytes |-> <<>>]
  ELSE [table |-> IF from_str(table[luau_handle].str) = "Ok"
                  THEN remove(table, luau_handle) ELSE table,
        status |-> from_str(table[luau_handle].str),
        bytes |-> table[luau_handle].str]

\* the body run under with_borrow_mut: the table it leaves and its result
receive_closure(table, luau_handle) ==
  LET removed == remove(table, luau_handle) IN
  IF ~contains_key(table, luau_handle)
  THEN [table |-> removed, status |-> "NoDataError", bytes |-> <<>>]
  ELSE IF table[luau_handle].tag = "AllocatedOnly"
  THEN [table |-> removed, status |-> "AllocatedOnlyError", bytes |-> <<>>]
  ELSE [table |-> removed,
        status |-> from_str(table[luau_handle].str),
        bytes |-> table[luau_handle].str]

\* receive results that come from the Ready arm: the payload was taken
Taken == {"Ok", "SerdeError"}

receive_from_luau(luau_handle) ==
  LET run == receive_closure(just_received_json, luau_handle)
  IN /\ Running
     /\ just_received_json' = run.table
     /\ last' = Call("receive", luau_handle, run.status, 0, Null, run.bytes)
     /\ hist' = IF run.status \in Taken
                THEN [hist EXCEPT ![luau_handle] = "taken"] ELSE hist
     /\ host' = HostAfter(run.table, luau_handle)
     /\ UNCHANGED <<ledger, contexts, sending, next_rust_handle, ptr_map>>

Next ==
  \/ \E h \in Handles, len \in Lens : lingua_send_json_to_rust_alloc(h, len)
  \/ \E h \in Handles, i \in 1..MaxLen, b \in PayloadBytes : HostWrite(h, i, b)
  \/ \E h \in Handles : lingua_send_json_to_rust(h)
  \/ \E h \in Handles : receive_from_luau(h)

Spec == Init /\ [][Next]_vars

(***************************************************************************)
(* send_to_luau.  A u32 is written as the i32 with the same 32 bits, the   *)
(* way it crosses the WebAssembly boundary: 0 .. 2^31-1 are themselves and *)
(* 2^31 .. 2^32-1 are the negative numbers, so that u32::MAX is -1.        *)
(***************************************************************************)
I32Max == 2147483647
I32Min == (0 - I32Max) - 1
U32Max == 0 - 1

\* variant: an add that saturates at u32::MAX
saturating_inc(x) ==
  IF x = U32Max THEN U32Max ELSE IF x = I32Max THEN I32Min ELSE x + 1

\* `next_rust_handle += 1` on a Wrapping<u32>: a 32-bit add that keeps the low
\* 32 bits
wrapping_inc(x) == IF x = I32Max THEN I32Min ELSE x + 1


\* the values handed to send_to_luau: the numbers 1 and 11, the vectors
\* [] and [1], and a map keyed by a pair, which JSON cannot express
Values == {"1", "11", "[]", "[1]", "{(1,1): 1}"}

\* serde_json::to_string
to_string(data) ==
  CASE data = "1" -> [ok |-> TRUE, str |-> <<49>>]
    [] data = "11" -> [ok |-> TRUE, str |-> <<49, 49>>]
    [] data = "[]" -> [ok |-> TRUE, str |-> <<91, 93>>]
    [] data = "[1]" -> [ok |-> TRUE, str |-> <<91, 49, 93>>]
    [] OTHER -> [ok |-> FALSE, str |-> <<>>]

\* the status bytes the host can answer with
Acks == 0..255

\* variant: every byte but 1 and 2 is taken for Success
interpret_lenient(value) ==
  CASE value = 1 -> "UncaughtErrorAtFfiBoundary"
    [] value = 2 -> "LuauApiNotReady"
    [] OTHER -> "Success"

\* return_codes::Luau::interpret
interpret(value) ==
  CASE value = 0 -> "Success"
    [] value = 1 -> "UncaughtErrorAtFfiBoundary"
    [] value = 2 -> "LuauApiNotReady"
    [] OTHER -> "None"

\* the match on the interpreted status at the end of send_to_luau
send_result(status) ==
  CASE status = "Success" -> "Ok"
    [] status = "UncaughtErrorAtFfiBoundary" -> "LuauErrorAtFfiBoundaryError"
    [] status = "LuauApiNotReady" -> "LuauApiNotReadyError"
    [] OTHER -> "LuauUnknownError"

\* variant: the counter moves only when the host answered Success
send_to_luau_closure_late(counter, data, ack) ==
  LET ser == to_string(data)
      result == send_result(interpret(ack))
  IN IF ~ser.ok
     THEN [counter |-> counter, called |-> FALSE, rust_handle |-> 0,
           str |-> <<>>, result |-> "SerdeError", handle |-> 0]
     ELSE [counter |-> IF result = "Ok" THEN wrapping_inc(counter) ELSE counter,
           called |-> TRUE, rust_handle |-> counter, str |-> ser.str,
           result |-> result, handle |-> IF result = "Ok" THEN counter ELSE 0]

\* the body run under with_borrow_mut, for a host that answers ack: the
\* counter it leaves, whether and what it passed to the host, and its result
send_to_luau_closure(counter, data, ack) ==
  LET ser == to_string(data) IN
  IF ~ser.ok
  THEN [counter |-> counter, called |-> FALSE, rust_handle |-> 0,
        str |-> <<>>, result |-> "SerdeError", handle |-> 0]
  ELSE LET rust_handle == counter
           result == send_result(interpret(ack))
       IN [counter |-> wrapping_inc(counter), called |-> TRUE,
           rust_handle |-> rust_handle, str |-> ser.str, result |-> result,
           handle |-> IF result = "Ok" THEN rust_handle ELSE 0]

\* variant: the string is also kept in the slot table under its handle
send_to_luau_keeping(data, ack) ==
  LET run == send_to_luau_closure(next_rust_handle, data, ack)
  IN /\ Running
     /\ Len(ledger.sent) < MaxSends
     /\ next_rust_handle' = run.counter
     /\ just_received_json' =
          IF run.called
          THEN insert(just_received_json, run.rust_handle,
                      [tag |-> "Ready", str |-> run.str, ptr |-> Dangling])
          ELSE just_received_json
     /\ last' = Call("send", run.handle, run.result,
                     IF run.called THEN ack ELSE 0, Null, run.str)
     /\ ledger' = IF run.called
                  THEN [ledger EXCEPT !.sent = Append(@, run.rust_handle)]
                  ELSE ledger
     /\ UNCHANGED <<ptr_map, hist, host, contexts, sending>>

\* last.code of a send is the byte the host answered, last.bytes the string
\* it was passed, last.handle the handle returned to the caller
send_to_luau(data, ack) ==
  LET run == send_to_luau_closure(next_rust_handle, data, ack)
  IN /\ Running
     /\ Len(ledger.sent) < MaxSends
     /\ next_rust_handle' = run.counter
     /\ last' = Call("send", run.handle, run.result,
                     IF run.called THEN ack ELSE 0, Null, run.str)
     /\ ledger' = IF run.called
                  THEN [ledger EXCEPT !.sent = Append(@, run.rust_handle)]
                  ELSE ledger
     /\ UNCHANGED <<just_received_json, ptr_map, hist, host, contexts, sending>>

\* counters a long-running context can have reached: a fresh one, one at the
\* sign boundary of the i32 writing, and one shortly before u32::MAX
StartHandles == {0, I32Max, U32Max - 1}

InitSend ==
  /\ just_received_json = EmptyMap
  /\ next_rust_handle \in StartHandles
  /\ ptr_map = EmptyMap
  /\ last = NoCall
  /\ hist = [h \in Handles |-> "none"]
  /\ host = [h \in Handles |-> NoHost]
  /\ ledger = [NoLedger EXCEPT !.start = next_rust_handle]
  /\ sending = NoSending
  /\ contexts = EmptyMap

\* answers of each kind: the three known codes and two unknown ones
SampleAcks == {0, 1, 2, 3, 255}

\* the transfers from the host that run next to the sends are empty strings
NextSend ==
  \/ \E data \in Values, ack \in SampleAcks : send_to_luau(data, ack)
  \/ \E h \in Handles : lingua_send_json_to_rust_alloc(h, 0)
  \/ \E h \in Handles : lingua_send_json_to_rust(h)
  \/ \E h \in Handles : receive_from_luau(h)

SpecSend == InitSend /\ [][NextSend]_vars

\* sends alone, of a value that serializes and of one that does not, answered
\* with every byte
NextAck == \E data \in {"1", "{(1,1): 1}"}, ack \in Acks : send_to_luau(data, ack)

SpecAck == Init /\ [][NextAck]_vars

(***************************************************************************)
(* src/lib.rs, the crate at the repository root, has the same alloc entry  *)
(* point and an earlier lingua_send_json_to_rust that re-inserts the entry *)
(* through JustReceivedJson::ready.                                        *)
(***************************************************************************)
ready(data) ==
  IF data.tag = "AllocatedOnly" THEN [data EXCEPT !.tag = "Ready"] ELSE data

send_closure_root(table, luau_handle) ==
  IF ~contains_key(table, luau_handle)
  THEN [panicked |-> TRUE, table |-> remove(table, luau_handle)]
  ELSE [panicked |-> FALSE,
        table |-> insert(remove(table, luau_handle), luau_handle,
                         ready(table[luau_handle]))]

lingua_send_json_to_rust_root(luau_handle) ==
  LET run == send_closure_root(just_received_json, luau_handle)
      status == ffi_panic_boundary(run)
  IN /\ Running
     /\ just_received_json' = run.table
     /\ last' = Call("commit", luau_handle, status, RustCode(status), Null, <<>>)
     /\ hist' = IF status = "Success"
                THEN [hist EXCEPT ![luau_handle] = "committed"] ELSE hist
     /\ host' = HostAfter(run.table, luau_handle)
     /\ UNCHANGED <<ledger, contexts, sending, next_rust_handle, ptr_map>>

NextRoot ==
  \/ \E h \in Handles, len \in Lens : lingua_send_json_to_rust_alloc(h, len)
  \/ \E h \in Handles, i \in 1..MaxLen, b \in PayloadBytes : HostWrite(h, i, b)
  \/ \E h \in Handles : lingua_send_json_to_rust_root(h)

SpecRoot == Init /\ [][NextRoot]_vars

(***************************************************************************)
(* src/ffi.rs: the registry of strings allocated for the host, and the     *)
(* entry points over it.                                                   *)
(***************************************************************************)
\* A capacity is written as the i32 the host passes for the usize of the
\* 32-bit target: the usize values above isize::MAX, which no String can
\* have as its capacity, are the negative ones (usize::MAX is -1).
ExceedsIsizeMax(capacity) == capacity < 0

\* capacities the host asks for: small ones and usize::MAX
Caps == (0..MaxCap) \cup {-1}

Addrs == {Null, Dangling} \cup HeapAddrs

\* StringAllocs::alloc; ptr is the buffer of the new String
alloc(map, capacity, ptr) ==
  IF ExceedsIsizeMax(capacity)
  THEN [panicked |-> TRUE, map |-> map, ptr |-> Null]
  ELSE [panicked |-> FALSE,
        map |-> insert(map, ptr, [capacity |-> capacity, str |-> <<>>]),
        ptr |-> ptr]

\* variant: a release that looks the entry up and leaves it in the map
dealloc_keep(map, ptr) ==
  IF ~contains_key(map, ptr)
  THEN [map |-> map, result |-> FALSE]
  ELSE [map |-> map, result |-> TRUE]

\* variant: a release that reports true whatever it found
dealloc_blind(map, ptr) ==
  IF ~contains_key(map, ptr)
  THEN [map |-> map, result |-> TRUE]
  ELSE [map |-> remove(map, ptr), result |-> TRUE]

\* StringAllocs::dealloc
dealloc(map, ptr) ==
  IF ~contains_key(map, ptr)
  THEN [map |-> map, result |-> FALSE]
  ELSE [map |-> remove(map, ptr), result |-> TRUE]

\* an extern "C" body that is not run under ffi_panic_boundary: its panic
\* unwinds to the caller of the entry point
unguarded(run) == IF run.panicked THEN "Escaped" ELSE "Returned"

\* `bool as u8`
BoolCode(b) == IF b THEN 1 ELSE 0

\* lingua_alloc_foreign_string, through alloc_string
lingua_alloc_foreign_string(capacity) ==
  \E ptr \in (IF ExceedsIsizeMax(capacity) THEN {Null} ELSE FreshAddrs(capacity)) :
    LET run == alloc(ptr_map, capacity, ptr)
    IN /\ Running
       /\ ptr_map' = run.map
       /\ last' = Call("alloc_foreign", 0, unguarded(run), 0, run.ptr, <<>>)
       /\ UNCHANGED <<ledger, contexts, sending, just_received_json, next_rust_handle, hist, host>>

\* lingua_dealloc_foreign_string, through dealloc_string
lingua_dealloc_foreign_string(ptr) ==
  LET run == dealloc(ptr_map, ptr)
  IN /\ Running
     /\ ptr_map' = run.map
     /\ last' = Call("dealloc_foreign", 0, "Returned", BoolCode(run.result), ptr, <<>>)
     /\ UNCHANGED <<ledger, contexts, sending, just_received_json, next_rust_handle, hist, host>>

\* lingua_dealloc_received_string: CString::from_raw on a pointer that no
\* CString::into_raw produced is undefined; the call returns or traps, and
\* it touches neither the slot table nor ptr_map
lingua_dealloc_received_string(ptr) ==
  \E outcome \in {"Returned", "Trapped"} :
    /\ Running
    /\ last' = Call("dealloc_received", 0, outcome, 0, ptr, <<>>)
    /\ UNCHANGED <<ledger, contexts, sending, just_received_json, next_rust_handle, ptr_map, hist, host>>

\* the foreign-function surface of the module
NextFfi ==
  \/ \E h \in Handles, len \in Lens : lingua_send_json_to_rust_alloc(h, len)
  \/ \E h \in Handles : lingua_send_json_to_rust(h)
  \/ \E capacity \in Caps : lingua_alloc_foreign_string(capacity)
  \/ \E ptr \in Addrs : lingua_dealloc_foreign_string(ptr)
  \/ \E ptr \in Addrs : lingua_dealloc_received_string(ptr)

SpecFfi == Init /\ [][NextFfi]_vars

(***************************************************************************)
(* src/ffi.rs: StringAllocs as the rest of the crate uses it.  The ledger  *)
(* keeps what the callers saw: handed, the addresses alloc returned that   *)
(* no dealloc has been called on since; released, for each address, how    *)
(* often the String behind it was dropped since alloc last returned it;    *)
(* allocs and frees, the calls of alloc that returned and of dealloc that  *)
(* returned true.                                                          *)
(***************************************************************************)
\* StringAllocs::get
get(map, ptr) ==
  IF ~contains_key(map, ptr)
  THEN [some |-> FALSE, str |-> <<>>]
  ELSE [some |-> TRUE, str |-> map[ptr].str]

\* StringAllocs::get_mut
get_mut(map, ptr) ==
  IF ~contains_key(map, ptr)
  THEN [some |-> FALSE, str |-> <<>>]
  ELSE [some |-> TRUE, str |-> map[ptr].str]

\* the drops of the String behind a, after one more
dropped(released, a) ==
  IF a \in DOMAIN released
  THEN [released EXCEPT ![a] = IF @ < 2 THEN @ + 1 ELSE @]
  ELSE insert(released, a, 1)

\* alloc_string
alloc_string(capacity) ==
  \E ptr \in (IF ExceedsIsizeMax(capacity) THEN {Null} ELSE FreshAddrs(capacity)) :
    LET run == alloc(ptr_map, capacity, ptr)
    IN /\ Running
       /\ ledger.allocs < MaxAllocs
       /\ ptr_map' = run.map
       /\ last' = Call("alloc_string", 0, unguarded(run), 0, run.ptr, <<>>)
       /\ ledger' = IF run.panicked
                    THEN ledger
                    ELSE [ledger EXCEPT !.handed = @ \cup {run.ptr},
                                        !.released = insert(@, run.ptr, 0),
                                        !.allocs = @ + 1]
       /\ UNCHANGED <<contexts, sending, just_received_json, next_rust_handle, hist, host>>

\* dealloc_string
dealloc_string(ptr) ==
  LET run == dealloc(ptr_map, ptr)
  IN /\ Running
     /\ ptr_map' = run.map
     /\ last' = Call("dealloc_string", 0, "Returned", BoolCode(run.result), ptr, <<>>)
     /\ ledger' = IF run.result
                  THEN [ledger EXCEPT !.handed = @ \ {ptr},
                                      !.released = dropped(@, ptr),
                                      !.frees = @ + 1]
                  ELSE [ledger EXCEPT !.handed = @ \ {ptr}]
     /\ UNCHANGED <<contexts, sending, just_received_json, next_rust_handle, hist, host>>

\* allocs.get(ptr) under with_borrow_mut
allocs_get(ptr) ==
  LET run == get(ptr_map, ptr)
  IN /\ Running
     /\ last' = Call("get", 0, "Returned", BoolCode(run.some), ptr, run.str)
     /\ UNCHANGED <<ledger, contexts, sending, just_received_json, next_rust_handle, ptr_map, hist, host>>

\* allocs.get_mut(ptr) under with_borrow_mut
allocs_get_mut(ptr) ==
  LET run == get_mut(ptr_map, ptr)
  IN /\ Running
     /\ last' = Call("get_mut", 0, "Returned", BoolCode(run.some), ptr, run.str)
     /\ UNCHANGED <<ledger, contexts, sending, just_received_json, next_rust_handle, ptr_map, hist, host>>

NextAllocs ==
  \/ \E capacity \in Caps : alloc_string(capacity)
  \/ \E ptr \in Addrs : dealloc_string(ptr)
  \/ \E ptr \in Addrs : allocs_get(ptr)
  \/ \E ptr \in Addrs : allocs_get_mut(ptr)

SpecAllocs == Init /\ [][NextAllocs]_vars

(***************************************************************************)
(* Properties.  A step is a call of op on h when it flips last.seq.        *)
(***************************************************************************)
IsCall(op, h) ==
  /\ last'.seq # last.seq
  /\ last'.op = op
  /\ last'.handle = h

\* a step is a call of op, whatever its argument
IsOp(op) ==
  /\ last'.seq # last.seq
  /\ last'.op = op

\* the two 16-bit halves of the u32 that x writes
Lo16(x) == x % 65536
Hi16(x) == ((x - Lo16(x)) \div 65536) % 65536

\* b is a + 1 modulo 2^32, computed on the halves with a carry
IsSucc32(a, b) ==
  /\ Lo16(b) = (Lo16(a) + 1) % 65536
  /\ Hi16(b) = (Hi16(a) + (IF Lo16(a) = 65535 THEN 1 ELSE 0)) % 65536

\* the results of send_to_luau that come after the call of the host
HostErrors ==
  {"LuauErrorAtFfiBoundaryError", "LuauApiNotReadyError", "LuauUnknownError"}

\* the lifecycle state of a handle in a slot table
SlotState(table, h) ==
  IF ~contains_key(table, h) THEN "Absent"
  ELSE IF table[h].tag = "AllocatedOnly" THEN "Reserved" ELSE "Ready"

\* C1. No premature read: a receive hands out a payload only when the last
\* call that succeeded on its handle is a commit (so a commit succeeded
\* after the most recent alloc and no receive took the payload since); a
\* receive that directly follows the successful alloc of its handle fails
\* with AllocatedOnlyError and hands out no bytes.
NoPrematureRead ==
  [][\A h \in Handles :
       IsCall("receive", h) =>
         /\ (last'.status \in Taken \/ last'.bytes # <<>>) => hist[h] = "committed"
         /\ (last.op = "alloc" /\ last.handle = h /\ last.ptr # Null) =>
              (last'.status = "AllocatedOnlyError" /\ last'.bytes = <<>>)]_vars

\* C1 witness: a receive was answered AllocatedOnlyError on a handle whose
\* last successful call is its alloc.
PrematureReadRefused ==
  /\ last.op = "receive"
  /\ last.status = "AllocatedOnlyError"
  /\ hist[last.handle] = "allocated"

\* C2. Single use: once a receive has taken the payload of a handle, and no
\* alloc of that handle succeeded since, a further receive fails with
\* NoDataError and hands out no bytes.
SingleUse ==
  [][\A h \in Handles :
       (IsCall("receive", h) /\ hist[h] = "taken") =>
         (last'.status = "NoDataError" /\ last'.bytes = <<>>)]_vars

\* C2 witness: the second receive of a taken handle was answered NoDataError.
SecondTakeRefused ==
  /\ last.op = "receive"
  /\ last.status = "NoDataError"
  /\ hist[last.handle] = "taken"

\* C3. Guard containment: an alloc or commit call in which a panic reached
\* the boundary reports it (status byte 1, and a null address from alloc)
\* and leaves the slot table and the handle counter as they were before
\* the call.
GuardContainment ==
  [][\A h \in Handles :
       ((IsCall("alloc", h) \/ IsCall("commit", h))
          /\ last'.status = "PanicAtFfiBoundary") =>
         /\ last'.code = 1
         /\ last'.op = "alloc" => last'.ptr = Null
         /\ just_received_json' = just_received_json
         /\ next_rust_handle' = next_rust_handle]_vars

\* C4. Every entry point of the foreign-function surface runs under the
\* panic boundary: no panic raised in one of them leaves the entry point.
EveryEntryPointGuarded == last.status # "Escaped"

\* C5. Slot lifecycle: alloc on an Absent handle returns a non-null address
\* and leaves it Reserved; commit on a Reserved handle returns 0 and leaves
\* it Ready with the same buffer; receive on a Ready handle hands out the
\* string and leaves it Absent; and the state of a slot changes by these
\* three routes only.
SlotLifecycle ==
  [][\A h \in Handles :
       LET before == SlotState(just_received_json, h)
           after == SlotState(just_received_json', h)
       IN /\ (IsCall("alloc", h) /\ before = "Absent") =>
               (last'.ptr # Null /\ after = "Reserved")
          /\ (IsCall("commit", h) /\ before = "Reserved") =>
               /\ last'.code = 0
               /\ after = "Ready"
               /\ just_received_json'[h].str = just_received_json[h].str
               /\ just_received_json'[h].ptr = just_received_json[h].ptr
          /\ (IsCall("receive", h) /\ before = "Ready") =>
               /\ last'.status \in Taken
               /\ last'.bytes = just_received_json[h].str
               /\ after = "Absent"
          /\ before # after =>
               \/ before = "Absent" /\ after = "Reserved" /\ IsCall("alloc", h)
               \/ before = "Reserved" /\ after = "Ready" /\ IsCall("commit", h)
               \/ before = "Ready" /\ after = "Absent" /\ IsCall("receive", h)]_vars

\* C6. Payload fidelity: when the host has written all len bytes it asked
\* for and its commit succeeded, receive takes exactly those len bytes, and
\* a JSON value written this way deserializes.
PayloadFidelity ==
  [][\A h \in Handles :
       (/\ IsCall("receive", h)
        /\ SlotState(just_received_json, h) = "Ready"
        /\ host[h].written = 1..host[h].len) =>
         /\ last'.bytes = host[h].data
         /\ IsJsonValue(host[h].data) => last'.status = "Ok"]_vars

\* C7. No double allocation: an alloc call on a handle that has an entry
\* (Reserved or Ready) panics at the boundary, returns the null address and
\* leaves the slot table, and so the entry of the handle, unchanged.
NoDoubleAllocation ==
  [][\A h \in Handles :
       (IsCall("alloc", h) /\ contains_key(just_received_json, h)) =>
         /\ last'.ptr = Null
         /\ last'.status = "PanicAtFfiBoundary"
         /\ just_received_json' = just_received_json]_vars

\* C7 witness: an alloc call on a live handle was answered with null.
DoubleAllocationRefused ==
  /\ last.op = "alloc"
  /\ last.ptr = Null
  /\ last.status = "PanicAtFfiBoundary"
  /\ contains_key(just_received_json, last.handle)

\* C8. Commit reports its sequencing failures as typed errors: NoData on
\* an Absent handle, AlreadyCommitted on a Ready handle, neither of them
\* with the status byte of a panic at the boundary or of success.
CommitTypedErrors ==
  [][\A h \in Handles :
       IsCall("commit", h) =>
         LET before == SlotState(just_received_json, h)
         IN /\ before = "Absent" => last'.status = "NoDataError"
            /\ before = "Ready" => last'.status = "AlreadyCommittedError"
            /\ before # "Reserved" =>
                 last'.code \notin {RustCode("Success"),
                                    RustCode("PanicAtFfiBoundary")}]_vars

\* C9. A receive that fails with NoDataError or AllocatedOnlyError leaves
\* the slot table unchanged, so a commit whose handle was allocated and not
\* yet committed or taken returns 0.
FailedTakeKeepsSlot ==
  [][\A h \in Handles :
       /\ (IsCall("receive", h)
             /\ last'.status \in {"NoDataError", "AllocatedOnlyError"}) =>
            just_received_json' = just_received_json
       /\ (IsCall("commit", h) /\ hist[h] = "allocated") => last'.code = 0]_vars

\* C10. Sentinel integrity: the string of a Reserved slot is exactly as long
\* as the host asked for, and all positions the host has not written hold
\* one and the same byte.
SentinelIntegrity ==
  \A h \in DOMAIN just_received_json :
    just_received_json[h].tag = "AllocatedOnly" =>
      LET str == just_received_json[h].str
          unwritten == (1..Len(str)) \ host[h].written
      IN /\ Len(str) = host[h].len
         /\ \A i, j \in unwritten : str[i] = str[j]

\* C11. The handles passed to the host come from a 32-bit counter: the first
\* one is the counter the context started with (0 in a fresh context), each
\* later one is the one before plus 1 modulo 2^32 (0 after 4294967295), and
\* a send that succeeds returns the handle it passed.
HandleCounter ==
  LET sent == ledger.sent IN
  /\ \A i \in 1..Len(sent) :
       IF i = 1 THEN sent[i] = ledger.start ELSE IsSucc32(sent[i - 1], sent[i])
  /\ (ledger.start = 0 /\ Len(sent) >= 1) => sent[1] = 0
  /\ \A i \in 2..Len(sent) : sent[i - 1] = U32Max => sent[i] = 0
  /\ (last.op = "send" /\ last.status = "Ok") =>
       (Len(sent) >= 1 /\ last.handle = sent[Len(sent)])

\* C11 witness: the send after the one that passed 4294967295 returned 0.
CounterWrapped ==
  /\ Len(ledger.sent) >= 2
  /\ ledger.sent[Len(ledger.sent) - 1] = U32Max
  /\ last.op = "send"
  /\ last.status = "Ok"
  /\ last.handle = 0

\* C12. A send that reached the host maps the answered byte to its result:
\* 0 to the handle that was passed, 1 to LuauErrorAtFfiBoundaryError, 2 to
\* LuauApiNotReadyError, 3..255 to LuauUnknownError; a handle is returned
\* only for the answer 0.
AckMapping ==
  [][(IsOp("send") /\ last'.status # "SerdeError") =>
       /\ last'.code \in Acks
       /\ last'.code = 0 =>
            (last'.status = "Ok" /\ last'.handle = next_rust_handle
               /\ ledger'.sent = Append(ledger.sent, last'.handle))
       /\ last'.code = 1 => last'.status = "LuauErrorAtFfiBoundaryError"
       /\ last'.code = 2 => last'.status = "LuauApiNotReadyError"
       /\ last'.code \in 3..255 => last'.status = "LuauUnknownError"
       /\ last'.status = "Ok" => last'.code = 0]_vars

\* C12 witness: the host answered 255 and the send returned LuauUnknownError.
UnknownAckSeen ==
  /\ last.op = "send"
  /\ last.code = 255
  /\ last.status = "LuauUnknownError"

\* C13. The two handle namespaces do not interact: a send leaves the slot
\* table unchanged, and alloc, commit and receive leave the counter and the
\* handles passed to the host unchanged.
NamespacesApart ==
  [][/\ IsOp("send") => just_received_json' = just_received_json
     /\ (IsOp("alloc") \/ IsOp("commit") \/ IsOp("receive")) =>
          (next_rust_handle' = next_rust_handle /\ ledger'.sent = ledger.sent)]_vars

\* C13 witness: a send returned a handle whose value is live as a luau handle.
HandleValuesCollide ==
  /\ last.op = "send"
  /\ last.status = "Ok"
  /\ contains_key(just_received_json, last.handle)

UnregisteredReleaseRefused ==
  [][\A ptr \in Addrs :
       (IsOp("dealloc_foreign") /\ last'.ptr = ptr /\ ~contains_key(ptr_map, ptr)) =>
         /\ last'.status = "Returned"
         /\ last'.code = 0
         /\ ptr_map' = ptr_map]_vars

\* C14 witness: a release was refused while other buffers were registered.
ReleaseRefused ==
  /\ last.op = "dealloc_foreign"
  /\ last.status = "Returned"
  /\ last.code = 0
  /\ ~contains_key(ptr_map, last.ptr)
  /\ ptr_map # EmptyMap

\* C15. No double free: an address that alloc returned stays in ptr_map,
\* where get and get_mut find it, until dealloc is called on it; that
\* dealloc drops the String, removes the entry and returns true; a dealloc
\* of an address that was not handed out since its last dealloc returns
\* false and drops nothing; no String is dropped twice.
NoDoubleFree ==
  [][/\ \A A \in ledger'.handed : contains_key(ptr_map', A)
     /\ \A A \in DOMAIN ledger'.released : ledger'.released[A] <= 1
     /\ \A A \in Addrs :
          /\ ((IsOp("get") \/ IsOp("get_mut")) /\ last'.ptr = A /\ A \in ledger.handed) =>
               last'.code = 1
          /\ (IsOp("dealloc_string") /\ last'.ptr = A /\ A \in ledger.handed) =>
               /\ last'.code = 1
               /\ ~contains_key(ptr_map', A)
               /\ ledger'.released[A] = 1
          /\ (IsOp("dealloc_string") /\ last'.ptr = A /\ A \notin ledger.handed) =>
               /\ last'.code = 0
               /\ ledger'.released = ledger.released
               /\ ptr_map' = ptr_map]_vars

\* C15 witness: a second dealloc of a heap buffer was refused.
SecondReleaseRefused ==
  /\ last.op = "dealloc_string"
  /\ last.code = 0
  /\ last.ptr \in HeapAddrs
  /\ last.ptr \in DOMAIN ledger.released
  /\ ledger.released[last.ptr] = 1

\* C16. Every alloc is answered with an address that ptr_map does not hold
\* yet, whatever the capacity, and ptr_map holds as many buffers as alloc
\* returned minus those dealloc returned true for.
RegistryCount ==
  [][/\ (IsOp("alloc_string") /\ last'.status = "Returned") =>
          ~contains_key(ptr_map, last'.ptr)
     /\ Cardinality(DOMAIN ptr_map') = ledger'.allocs - ledger'.frees]_vars

\* C18. A call of alloc, commit or receive on a handle h, whatever its
\* outcome, leaves the slot of every other handle as it was: its presence,
\* its state, its bytes and its buffer.
OtherHandlesUntouched ==
  [][\A h \in Handles, other \in Handles :
       (/\ other # h
        /\ IsCall("alloc", h) \/ IsCall("commit", h) \/ IsCall("receive", h)) =>
         /\ contains_key(just_received_json', other) = contains_key(just_received_json, other)
         /\ contains_key(just_received_json, other) =>
              just_received_json'[other] = just_received_json[other]]_vars

\* C18 witness: a call on one handle was caught at the panic boundary while
\* the other handle held a written payload.
FaultBesideLiveSlot ==
  /\ last.status = "PanicAtFfiBoundary"
  /\ \E other \in Handles \ {last.handle} :
       /\ contains_key(just_received_json, other)
       /\ just_received_json[other].tag = "Ready"
       /\ Len(just_received_json[other].str) > 0

(***************************************************************************)
(* A host and a module that keep to the protocol: the host allocates only  *)
(* a handle that is not in use and commits only what it allocated, the     *)
(* module takes only what was committed; a commit or a take that can be    *)
(* made is made in the end.                                                *)
(***************************************************************************)
HostAllocates(h, len) ==
  /\ SlotState(just_received_json, h) = "Absent"
  /\ lingua_send_json_to_rust_alloc(h, len)

HostCommits(h) ==
  /\ SlotState(just_received_json, h) = "Reserved"
  /\ lingua_send_json_to_rust(h)

ModuleTakes(h) ==
  /\ SlotState(just_received_json, h) = "Ready"
  /\ receive_from_luau(h)

NextProper ==
  \/ \E h \in Handles, len \in Lens : HostAllocates(h, len)
  \/ \E h \in Handles, i \in 1..MaxLen, b \in PayloadBytes : HostWrite(h, i, b)
  \/ \E h \in Handles : HostCommits(h)
  \/ \E h \in Handles : ModuleTakes(h)

SpecProper ==
  /\ Init
  /\ [][NextProper]_vars
  /\ \A h \in Handles : WF_vars(HostCommits(h)) /\ WF_vars(ModuleTakes(h))

\* a transfer on h is in flight from its alloc to its take
InFlight(h) == hist[h] \in {"allocated", "committed"}

Threads == 0..MaxThread

\* variant: a plain static, one instance for all threads
StaticKey(t) == 0

\* the instance a thread reaches through the LocalKey
LocalKey(t) == t

\* ApiState::new and StringAllocs::new
NewContext ==
  [just_received_json |-> EmptyMap, next_rust_handle |-> 0, ptr_map |-> EmptyMap]

InitCtx ==
  /\ just_received_json = EmptyMap
  /\ next_rust_handle = 0
  /\ ptr_map = EmptyMap
  /\ last = NoCall
  /\ hist = [h \in Handles |-> "none"]
  /\ host = [h \in Handles |-> NoHost]
  /\ ledger = NoLedger
  /\ sending = NoSending
  /\ contexts = [k \in {LocalKey(t) : t \in Threads} |-> NewContext]

\* what with_borrow_mut hands to a closure run on thread t
ContextOf(t) == contexts[LocalKey(t)]

\* buffers in use in any thread
CtxInUse ==
  UNION {{contexts[k].just_received_json[h].ptr :
            h \in DOMAIN contexts[k].just_received_json}
         \cup DOMAIN contexts[k].ptr_map : k \in DOMAIN contexts}

CtxFreshAddrs(cap) == IF cap = 0 THEN {Dangling} ELSE HeapAddrs \ CtxInUse

\* the bookkeeping of a call made on thread t
Acting(t) == [ledger EXCEPT !.thread = t]

\* the single-instance variables, which the threads of SpecCtx do not use
Single == <<just_received_json, next_rust_handle, ptr_map, hist, host, sending>>

lingua_send_json_to_rust_alloc_on(t, luau_handle, len) ==
  \E str_ptr \in CtxFreshAddrs(Len(from_iter(len))) :
    LET run == alloc_closure(ContextOf(t).just_received_json, luau_handle, len, str_ptr)
        status == ffi_panic_boundary(run)
    IN /\ contexts' = [contexts EXCEPT ![LocalKey(t)].just_received_json = run.table]
       /\ last' = Call("alloc", luau_handle, status, RustCode(status), run.return_ptr, <<>>)
       /\ ledger' = Acting(t)
       /\ UNCHANGED Single

lingua_send_json_to_rust_on(t, luau_handle) ==
  LET run == send_closure(ContextOf(t).just_received_json, luau_handle)
      status == ffi_panic_boundary(run)
  IN /\ contexts' = [contexts EXCEPT ![LocalKey(t)].just_received_json = run.table]
     /\ last' = Call("commit", luau_handle, status, RustCode(status), Null, <<>>)
     /\ ledger' = Acting(t)
     /\ UNCHANGED Single

receive_from_luau_on(t, luau_handle) ==
  LET run == receive_closure(ContextOf(t).just_received_json, luau_handle)
  IN /\ contexts' = [contexts EXCEPT ![LocalKey(t)].just_received_json = run.table]
     /\ last' = Call("receive", luau_handle, run.status, 0, Null, run.bytes)
     /\ ledger' = Acting(t)
     /\ UNCHANGED Single

send_to_luau_on(t, data, ack) ==
  LET run == send_to_luau_closure(ContextOf(t).next_rust_handle, data, ack)
  IN /\ ContextOf(t).next_rust_handle < MaxCtxSends
     /\ contexts' = [contexts EXCEPT ![LocalKey(t)].next_rust_handle = run.counter]
     /\ last' = Call("send", run.handle, run.result,
                     IF run.called THEN ack ELSE 0, Null, run.str)
     /\ ledger' = IF run.called
                  THEN [Acting(t) EXCEPT !.senders = @ \cup {t}]
                  ELSE Acting(t)
     /\ UNCHANGED Single

alloc_string_on(t, capacity) ==
  \E ptr \in CtxFreshAddrs(capacity) :
    LET run == alloc(ContextOf(t).ptr_map, capacity, ptr)
    IN /\ contexts' = [contexts EXCEPT ![LocalKey(t)].ptr_map = run.map]
       /\ last' = Call("alloc_string", 0, unguarded(run), 0, run.ptr, <<>>)
       /\ ledger' = Acting(t)
       /\ UNCHANGED Single

dealloc_string_on(t, ptr) ==
  LET run == dealloc(ContextOf(t).ptr_map, ptr)
  IN /\ contexts' = [contexts EXCEPT ![LocalKey(t)].ptr_map = run.map]
     /\ last' = Call("dealloc_string", 0, "Returned", BoolCode(run.result), ptr, <<>>)
     /\ ledger' = Acting(t)
     /\ UNCHANGED Single

\* the handle and the payloads the threads use, and the answers of the host
CtxHandle == 0
CtxValues == {"1", "{(1,1): 1}"}
CtxAcks == {0, 1}

\* any interleaving of the calls of the threads; every capacity asked for
\* is one a String can have
NextCtx ==
  \/ \E t \in Threads : lingua_send_json_to_rust_alloc_on(t, CtxHandle, 1)
  \/ \E t \in Threads : lingua_send_json_to_rust_on(t, CtxHandle)
  \/ \E t \in Threads : receive_from_luau_on(t, CtxHandle)
  \/ \E t \in Threads, data \in CtxValues, ack \in CtxAcks : send_to_luau_on(t, data, ack)
  \/ \E t \in Threads, capacity \in 0..MaxCap : alloc_string_on(t, capacity)
  \/ \E t \in Threads, ptr \in Addrs : dealloc_string_on(t, ptr)

SpecCtx == InitCtx /\ [][NextCtx]_vars

\* C17. Per-context isolation: a call made on one thread leaves the slot
\* table, the handle counter and the buffer registry of every other thread
\* as they were, and the first handle a thread passes to the host and gets
\* back is 0.
ContextIsolation ==
  [][\A t \in Threads :
       (last'.seq # last.seq /\ ledger'.thread = t) =>
         /\ \A u \in Threads \ {t} : ContextOf(u)' = ContextOf(u)
         /\ (last'.op = "send" /\ last'.status = "Ok" /\ t \notin ledger.senders) =>
              last'.handle = 0]_vars

\* C17 witness: thread 1 got handle 0 from its first send after thread 0 had
\* sent, while the handle that is Reserved on thread 0 is Absent on thread 1.
SameHandleApart ==
  /\ last.op = "send"
  /\ last.status = "Ok"
  /\ last.handle = 0
  /\ ledger.thread = 1
  /\ ledger.senders = {0, 1}
  /\ SlotState(ContextOf(0).just_received_json, CtxHandle) = "Reserved"
  /\ SlotState(ContextOf(1).just_received_json, CtxHandle) = "Absent"

\* C21. A receive on a Ready handle consumes the slot whether or not the
\* string parses: after a receive that returned SerdeError the slot is gone
\* from the table, and a receive of the same handle made next returns
\* NoDataError and no bytes.
FailedParseConsumes ==
  [][\A h \in Handles :
       /\ (IsCall("receive", h) /\ SlotState(just_received_json, h) = "Ready") =>
            (last'.status \in Taken /\ ~contains_key(just_received_json', h))
       /\ (IsCall("receive", h) /\ last'.status = "SerdeError") =>
            ~contains_key(just_received_json', h)
       /\ (/\ last.op = "receive"
           /\ last.handle = h
           /\ last.status = "SerdeError"
           /\ IsCall("receive", h)) =>
            (last'.status = "NoDataError" /\ last'.bytes = <<>>)]_vars

\* C21 witness: the receive after one that failed to parse a written
\* payload found no data.
RetryFoundNothing ==
  /\ last.op = "receive"
  /\ last.status = "NoDataError"
  /\ hist[last.handle] = "taken"
  /\ host[last.handle] = NoHost
  /\ ~contains_key(just_received_json, last.handle)

(***************************************************************************)
(* send_to_luau calls lingua_send_json_to_luau inside its with_borrow_mut  *)
(* closure, so API_STATE is mutably borrowed for as long as the host runs; *)
(* the host may call the two entry points from there.  sending.active is   *)
(* the borrow flag of the RefCell, and the ledger notes whether the host   *)
(* called back during the send.                                            *)
(***************************************************************************)
\* variant: the closure is run on the state whatever the borrow flag says
with_borrow_mut_unchecked(borrowed, table, run) == run

\* RefCell::borrow_mut panics when the cell is borrowed already, before the
\* closure runs
with_borrow_mut(borrowed, table, run) ==
  IF borrowed THEN [run EXCEPT !.panicked = TRUE, !.table = table] ELSE run

\* send_to_luau up to its call of lingua_send_json_to_luau; a value that does
\* not serialize makes it return before it calls
send_to_luau_call(data) ==
  LET ser == to_string(data)
  IN /\ Running
     /\ ~sending.active
     /\ Len(ledger.sent) < MaxSends
     /\ IF ~ser.ok
        THEN /\ last' = Call("send", 0, "SerdeError", 0, Null, <<>>)
             /\ UNCHANGED <<next_rust_handle, sending, ledger>>
        ELSE /\ next_rust_handle' = wrapping_inc(next_rust_handle)
             /\ sending' = [active |-> TRUE, rust_handle |-> next_rust_handle,
                            str |-> ser.str]
             /\ last' = Call("deliver", next_rust_handle, "Called", 0, Null, ser.str)
             /\ ledger' = [ledger EXCEPT !.sent = Append(@, next_rust_handle),
                                         !.nested = FALSE]
     /\ UNCHANGED <<just_received_json, ptr_map, hist, host, contexts>>

\* lingua_send_json_to_luau returns ack and send_to_luau returns
send_to_luau_return(ack) ==
  LET result == send_result(interpret(ack))
  IN /\ Running
     /\ sending.active
     /\ sending' = NoSending
     /\ last' = Call("send", IF result = "Ok" THEN sending.rust_handle ELSE 0,
                     result, ack, Null, sending.str)
     /\ UNCHANGED <<just_received_json, next_rust_handle, ptr_map, hist, host,
                    ledger, contexts>>

\* lingua_send_json_to_rust_alloc, called by the host at any time
lingua_send_json_to_rust_alloc_reentrant(luau_handle, len) ==
  \E str_ptr \in FreshAddrs(Len(from_iter(len))) :
    LET run == with_borrow_mut(sending.active, just_received_json,
                 alloc_closure(just_received_json, luau_handle, len, str_ptr))
        status == ffi_panic_boundary(run)
        return_ptr == IF run.panicked THEN Null ELSE run.return_ptr
    IN /\ Running
       /\ just_received_json' = run.table
       /\ last' = Call("alloc", luau_handle, status, RustCode(status), return_ptr, <<>>)
       /\ hist' = IF return_ptr # Null
                  THEN [hist EXCEPT ![luau_handle] = "allocated"] ELSE hist
       /\ host' = IF return_ptr # Null
                  THEN [host EXCEPT ![luau_handle] = Asked(len)]
                  ELSE host
       /\ ledger' = IF sending.active THEN [ledger EXCEPT !.nested = TRUE] ELSE ledger
       /\ UNCHANGED <<next_rust_handle, ptr_map, contexts, sending>>

\* lingua_send_json_to_rust, called by the host at any time
lingua_send_json_to_rust_reentrant(luau_handle) ==
  LET run == with_borrow_mut(sending.active, just_received_json,
               send_closure(just_received_json, luau_handle))
      status == ffi_panic_boundary(run)
  IN /\ Running
     /\ just_received_json' = run.table
     /\ last' = Call("commit", luau_handle, status, RustCode(status), Null, <<>>)
     /\ hist' = IF status = "Success"
                THEN [hist EXCEPT ![luau_handle] = "committed"] ELSE hist
     /\ host' = HostAfter(run.table, luau_handle)
     /\ ledger' = IF sending.active THEN [ledger EXCEPT !.nested = TRUE] ELSE ledger
     /\ UNCHANGED <<next_rust_handle, ptr_map, contexts, sending>>

\* receive_from_luau is called by the module, which is not running while a
\* send waits for the host
receive_from_luau_outside(luau_handle) ==
  /\ ~sending.active
  /\ receive_from_luau(luau_handle)

\* payloads sent and answers given while the host may call back
ReentrantValues == {"1", "{(1,1): 1}"}
ReentrantAcks == {0, 1, 3}

NextReentrant ==
  \/ \E data \in ReentrantValues : send_to_luau_call(data)
  \/ \E ack \in ReentrantAcks : send_to_luau_return(ack)
  \/ \E h \in Handles, len \in Lens : lingua_send_json_to_rust_alloc_reentrant(h, len)
  \/ \E h \in Handles : lingua_send_json_to_rust_reentrant(h)
  \/ \E h \in Handles : receive_from_luau_outside(h)

SpecReentrant == Init /\ [][NextReentrant]_vars

\* C22. While a send is inside its call of the host, a call of alloc or
\* commit by the host, on any handle, is caught at the panic boundary (alloc
\* returns the null address, commit returns 1) and leaves the slot table and
\* the send as they were; the send then returns the handle it had assigned
\* when the host answers 0.
ReentrantCallRefused ==
  [][/\ (sending.active /\ (IsOp("alloc") \/ IsOp("commit"))) =>
          /\ last'.status = "PanicAtFfiBoundary"
          /\ IsOp("alloc") => last'.ptr = Null
          /\ IsOp("commit") => last'.code = 1
          /\ just_received_json' = just_received_json
          /\ next_rust_handle' = next_rust_handle
          /\ sending' = sending
     /\ (sending.active /\ IsOp("send") /\ last'.code = 0) =>
          /\ last'.status = "Ok"
          /\ last'.handle = sending.rust_handle
          /\ last'.handle = ledger.sent[Len(ledger.sent)]
          /\ ~sending'.active]_vars

\* C22 witness: a send returned its handle after the host had called back
\* during it, with a slot live in the table.
SendSurvivedCallback ==
  /\ last.op = "send"
  /\ last.status = "Ok"
  /\ ledger.nested
  /\ ~sending.active
  /\ just_received_json # EmptyMap
====
